---- MODULE Spec2Model ----
(***************************************************************************)
(* A model of txasm: the primitive codec (serialization.rs), the compiled  *)
(* transaction container and its wire codec, and the TransactionBuilder    *)
(* (transaction.rs).                                                       *)
(*                                                                         *)
(* Byte vectors are sequences over 0..255.  A cursor is a pair (data,      *)
(* position) with a 0-based position, so the code's data[position] is      *)
(* data[position + 1] here.  A Result is a record with a field kind:       *)
(* "Ok", "Err" (with the TxAsmError variant in err) or "Panic" (the call   *)
(* unwinds, e.g. on a slice index past the end of the buffer).             *)
(***************************************************************************)
EXTENDS Integers, Sequences, FiniteSets, TLC

VARIABLES
    \* TransactionBuilder (transaction.rs:249-253) and the outcome of the
    \* consuming call made on it
    payer, recent_blockhash, instructions, overflow_checks, pc, result,
    \* the instructions handed to add_instruction / add_instructions so far,
    \* in call order, and the keypairs handed to build_and_sign
    added, signers,
    \* a CompiledTransaction value and what the codec computed from it
    tx, cpc, wire, msg_bytes, tx_size, msg_byte_size, buf, decoded,
    \* what TransactionOptimizer::optimize returned for tx, with the strategy
    optimized,
    \* a call of a decoder of serialization.rs, of InstructionDecoder::decode
    \* or of CompiledTransaction::deserialize: the u16 that was encoded into
    \* the buffer (if any), the cursor's buffer, its position before and
    \* after the call, the function called and what it returned, and what
    \* serialize() gives for the transaction deserialize returned
    input_value, cursor_data, cursor_start, cursor_position, ppc, returned, reencoded,
    \* a RawInstruction, what its serialize_bytes wrote, its byte_size() and
    \* what InstructionEncoder::serialize returned for the same fields
    raw, rpc, raw_bytes, raw_size, encoder_bytes

vars == <<payer, recent_blockhash, instructions, overflow_checks, pc, result,
          added, signers,
          tx, cpc, wire, msg_bytes, tx_size, msg_byte_size, buf, decoded,
          optimized,
          input_value, cursor_data, cursor_start, cursor_position, ppc, returned, reencoded,
          raw, rpc, raw_bytes, raw_size, encoder_bytes>>

builder_vars ==
    <<payer, recent_blockhash, instructions, overflow_checks, pc, result, added, signers>>

codec_vars == <<tx, cpc, wire, msg_bytes, tx_size, msg_byte_size, buf, decoded>>

cursor_vars ==
    <<input_value, cursor_data, cursor_start, cursor_position, ppc, returned, reencoded>>

raw_vars == <<raw, rpc, raw_bytes, raw_size, encoder_bytes>>

\* What the builder and the codec of a transaction leave alone.
other_vars == <<optimized, cursor_vars, raw_vars>>

(***************************************************************************)
(* Widths and fixed sizes of the program.                                  *)
(***************************************************************************)
U8_MOD == 256

U16_MOD == 65536

PUBKEY_LEN == 32

SIGNATURE_LEN == 64

\* Option<T>: None is the empty sequence, Some(x) the one-element sequence.
\* [b; 32]
Key32(b) == [i \in 1..PUBKEY_LEN |-> b]

None == <<>>

Some(x) == <<x>>

\* `n as u8`, `n as u16`: the truncating casts of the code.
AsU8(n) == n % U8_MOD

AsU16(n) == n % U16_MOD

Ok(v) == [kind |-> "Ok", value |-> v]

Err(e) == [kind |-> "Err", err |-> e]

Panic == [kind |-> "Panic"]

\* The result of a decoder that advanced the cursor to `position`.
OkAt(v, position) == [kind |-> "Ok", value |-> v, position |-> position]

RECURSIVE BitOr(_, _)
BitOr(a, b) ==
    IF a = 0 THEN b
    ELSE IF b = 0 THEN a
    ELSE (IF a % 2 = 1 \/ b % 2 = 1 THEN 1 ELSE 0) + 2 * BitOr(a \div 2, b \div 2)

RECURSIVE Pow2(_)
Pow2(n) == IF n = 0 THEN 1 ELSE 2 * Pow2(n - 1)

\* `let x = value; then(x)`: value is computed once and then(x) reads the
\* computed value.
Eval(value, then(_)) == CHOOSE r \in {then(x) : x \in {value}} : TRUE

\* `let x = result?; then(x)`: a result that is not Ok is returned as it is.
Try(res, then(_)) ==
    Eval(res, LAMBDA r : IF r.kind # "Ok" THEN r ELSE then(r))

\* `for item in items[lo..=hi] { state = body(state, item) }`: the items are
\* visited left to right; the range is halved only to keep the evaluation
\* shallow.  A body that returned early (a `?` that failed) is modelled by a
\* body that leaves a non-Ok state unchanged.
RECURSIVE for_each(_, _, _, _, _)
for_each(body(_, _), state, items, lo, hi) ==
    IF lo > hi THEN state
    ELSE IF lo = hi THEN body(state, items[lo])
    ELSE Eval(for_each(body, state, items, lo, (lo + hi) \div 2),
              LAMBDA left : for_each(body, left, items, ((lo + hi) \div 2) + 1, hi))

\* `for _ in 0..n`
Times(n) == [i \in 1..n |-> i]

(***************************************************************************)
(* serialization.rs: the primitive codec.                                  *)
(***************************************************************************)
\* encode_compact_u16 with at most two bytes for every value above 0x7f.
encode_compact_u16_two_bytes(value, writer) ==
    IF value <= 127
    THEN writer \o <<AsU8(value)>>
    ELSE writer \o <<AsU8(BitOr(value % 128, 128)), AsU8(value \div 128)>>

\* value is a u16; the writer is the Vec<u8> being appended to.
encode_compact_u16(value, writer) ==
    IF value <= 127
    THEN writer \o <<AsU8(value)>>
    ELSE IF value <= 16383
    THEN writer \o <<AsU8(BitOr(value % 128, 128)), AsU8(value \div 128)>>
    ELSE writer \o <<AsU8(BitOr(value % 128, 128)),
                     AsU8(BitOr((value \div 128) % 128, 128)),
                     AsU8(value \div 16384)>>

RECURSIVE decode_compact_u16_loop(_, _, _, _, _)
decode_compact_u16_loop(data, position, i, value, shift) ==
    IF i >= 3
    THEN Err("DeserializationError: Invalid compact-u16 encoding")
    ELSE IF position >= Len(data)
    THEN Err("DeserializationError: Unexpected end of buffer")
    ELSE LET byte == data[position + 1]
             v == BitOr(value, ((byte % 128) * Pow2(shift)) % U16_MOD)
         IN  IF byte < 128
             THEN OkAt(v, position + 1)
             ELSE decode_compact_u16_loop(data, position + 1, i + 1, v, shift + 7)

\* decode_compact_u16 taking a third byte with the continuation bit set as
\* the last byte of the value.
decode_compact_u16_lenient(data, position) ==
    IF /\ position + 3 <= Len(data)
       /\ \A i \in 1..3 : data[position + i] >= 128
    THEN OkAt(0, position + 3)
    ELSE decode_compact_u16_loop(data, position, 0, 0, 0)

decode_compact_u16(data, position) ==
    decode_compact_u16_loop(data, position, 0, 0, 0)

encode_pubkey(pubkey, writer) == writer \o pubkey

decode_pubkey(data, position) ==
    IF position + PUBKEY_LEN > Len(data)
    THEN Err("BufferTooSmall")
    ELSE OkAt(SubSeq(data, position + 1, position + PUBKEY_LEN), position + PUBKEY_LEN)

encode_u8(value, writer) == writer \o <<value>>

decode_u8(data, position) ==
    IF position >= Len(data)
    THEN Err("BufferTooSmall")
    ELSE OkAt(data[position + 1], position + 1)

\* Where decode_compact_u16 leaves the cursor: it advances by one for every
\* byte it reads (line 55), whether it then returns a value or an error.
RECURSIVE decode_compact_u16_cursor_loop(_, _, _)
decode_compact_u16_cursor_loop(data, position, i) ==
    IF i >= 3 THEN position
    ELSE IF position >= Len(data) THEN position
    ELSE IF data[position + 1] < 128 THEN position + 1
    ELSE decode_compact_u16_cursor_loop(data, position + 1, i + 1)

decode_compact_u16_cursor(data, position) ==
    decode_compact_u16_cursor_loop(data, position, 0)

encode_length_prefixed(data, writer) ==
    encode_compact_u16(AsU16(Len(data)), writer) \o data

decode_length_prefixed(data, position) ==
    Try(decode_compact_u16(data, position), LAMBDA length :
        IF length.position + length.value > Len(data)
        THEN Err("BufferTooSmall")
        ELSE OkAt(SubSeq(data, length.position + 1, length.position + length.value),
                  length.position + length.value))

\* Where decode_length_prefixed leaves the cursor when it returns an error:
\* after the bytes of the prefix that were read.
decode_length_prefixed_cursor(data, position) ==
    Eval(decode_length_prefixed(data, position), LAMBDA res :
        IF res.kind = "Ok" THEN res.position ELSE decode_compact_u16_cursor(data, position))

U64_LEN == 8

\* u64::from_le_bytes: the value as four 16-bit limbs, least significant
\* first.
u64_from_le_bytes(le) == [k \in 1..4 |-> le[(2 * k) - 1] + (U8_MOD * le[2 * k])]

decode_u64(data, position) ==
    IF position + U64_LEN > Len(data)
    THEN Err("BufferTooSmall")
    ELSE OkAt(u64_from_le_bytes(SubSeq(data, position + 1, position + U64_LEN)),
              position + U64_LEN)

(***************************************************************************)
(* transaction.rs: ByteSerialize for MessageHeader, CompiledInstruction    *)
(* and CompiledMessage.  serialize_bytes returns the writer after the      *)
(* call; writing to a Vec<u8> cannot fail, so it is always Ok(()).         *)
(***************************************************************************)
MessageHeader_new(required, readonly_signed, readonly_unsigned) ==
    [num_required_signatures |-> required,
     num_readonly_signed_accounts |-> readonly_signed,
     num_readonly_unsigned_accounts |-> readonly_unsigned]

header_serialize_bytes(header, writer) ==
    encode_u8(header.num_readonly_unsigned_accounts,
        encode_u8(header.num_readonly_signed_accounts,
            encode_u8(header.num_required_signatures, writer)))

header_byte_size(header) == 3

instruction_serialize_bytes(ix, writer) ==
    LET w1 == encode_u8(ix.program_id_index, writer)
        w2 == encode_compact_u16(AsU16(Len(ix.account_indices)), w1)
        \* for &index in &self.account_indices { encode_u8(index, writer)?; }
        \* appends the indices one by one, i.e. the whole vector
        w3 == w2 \o ix.account_indices
        w4 == encode_compact_u16(AsU16(Len(ix.data)), w3)
    IN  w4 \o ix.data

instruction_byte_size(ix) ==
    LET accounts_len_size == IF Len(ix.account_indices) <= 127 THEN 1 ELSE 2
        data_len_size == IF Len(ix.data) <= 127 THEN 1
                         ELSE IF Len(ix.data) <= 16383 THEN 2 ELSE 3
    IN  1 + accounts_len_size + Len(ix.account_indices) + data_len_size + Len(ix.data)

\* for key in &self.account_keys { encode_pubkey(key, writer)?; }
encode_pubkey_each(keys, writer) ==
    LET body(w, key) == encode_pubkey(key, w)
    IN  for_each(body, writer, keys, 1, Len(keys))

\* The bytes the instructions lo..hi append to a writer, in order: every
\* serialize_bytes only appends, so the loop over a range appends what its
\* first half appends and then what its second half appends.
RECURSIVE instruction_serialize_range(_, _, _)
instruction_serialize_range(ixs, lo, hi) ==
    IF lo > hi THEN <<>>
    ELSE IF lo = hi THEN instruction_serialize_bytes(ixs[lo], <<>>)
    ELSE instruction_serialize_range(ixs, lo, (lo + hi) \div 2)
             \o instruction_serialize_range(ixs, ((lo + hi) \div 2) + 1, hi)

\* for instruction in &self.instructions { instruction.serialize_bytes(writer)?; }
instruction_serialize_each(ixs, writer) ==
    writer \o instruction_serialize_range(ixs, 1, Len(ixs))

\* self.instructions.iter().map(|i| i.byte_size()).sum::<usize>()
instruction_byte_size_sum(ixs) ==
    LET body(sum, ix) == sum + instruction_byte_size(ix)
    IN  for_each(body, 0, ixs, 1, Len(ixs))

message_serialize_bytes(message, writer) ==
    LET w1 == header_serialize_bytes(message.header, writer)
        w2 == encode_compact_u16(AsU16(Len(message.account_keys)), w1)
        w3 == encode_pubkey_each(message.account_keys, w2)
        w4 == encode_pubkey(message.recent_blockhash, w3)
        w5 == encode_compact_u16(AsU16(Len(message.instructions)), w4)
    IN  instruction_serialize_each(message.instructions, w5)

message_byte_size(message) ==
    LET keys_len_size == IF Len(message.account_keys) <= 127 THEN 1 ELSE 2
        instructions_len_size == IF Len(message.instructions) <= 127 THEN 1 ELSE 2
    IN  header_byte_size(message.header)
        + keys_len_size
        + (Len(message.account_keys) * 32)
        + 32
        + instructions_len_size
        + instruction_byte_size_sum(message.instructions)

(***************************************************************************)
(* transaction.rs: CompiledTransaction.                                    *)
(***************************************************************************)
\* for sig in &self.signatures { bytes.extend_from_slice(sig); }
extend_each(slices, writer) ==
    LET body(w, slice) == w \o slice
    IN  for_each(body, writer, slices, 1, Len(slices))

serialize(t) ==
    LET b1 == encode_compact_u16(AsU16(Len(t.signatures)), <<>>)
        b2 == extend_each(t.signatures, b1)
    IN  Ok(message_serialize_bytes(t.message, b2))

message_bytes(t) == Ok(message_serialize_bytes(t.message, <<>>))

size(t) ==
    LET sigs_len_size == IF Len(t.signatures) <= 127 THEN 1 ELSE 2
    IN  sigs_len_size + (Len(t.signatures) * 64) + message_byte_size(t.message)

\* The signature loop of deserialize (lines 178-191); the state is the
\* vector read so far and the cursor position.
deserialize_signatures(data, position, num_signatures) ==
    LET body(st, i) ==
            IF st.kind # "Ok" THEN st
            ELSE IF st.position + SIGNATURE_LEN > Len(data) THEN Err("BufferTooSmall")
            ELSE OkAt(Append(st.value,
                             SubSeq(data, st.position + 1, st.position + SIGNATURE_LEN)),
                      st.position + SIGNATURE_LEN)
    IN  for_each(body, OkAt(<<>>, position), Times(num_signatures), 1, num_signatures)

\* for _ in 0..num_account_keys { account_keys.push(decode_pubkey(&mut cursor)?); }
deserialize_account_keys(data, position, num_account_keys) ==
    LET body(st, i) ==
            IF st.kind # "Ok" THEN st
            ELSE Try(decode_pubkey(data, st.position), LAMBDA key :
                     OkAt(Append(st.value, key.value), key.position))
    IN  for_each(body, OkAt(<<>>, position), Times(num_account_keys), 1, num_account_keys)

\* for _ in 0..num_accounts { account_indices.push(decode_u8(&mut cursor)?); }
\* decode_u8 fails exactly when the cursor is at the end of the buffer, so the
\* loop returns BufferTooSmall iff fewer than num_accounts bytes remain.
deserialize_account_indices(data, position, num_accounts) ==
    IF position + num_accounts > Len(data)
    THEN decode_u8(data, Len(data))
    ELSE OkAt(SubSeq(data, position + 1, position + num_accounts), position + num_accounts)

\* One pass of the instruction loop of deserialize (lines 217-233).
deserialize_instruction(data, position) ==
    Try(decode_u8(data, position), LAMBDA program_id_index :
    Try(decode_compact_u16(data, program_id_index.position), LAMBDA num_accounts :
    Try(deserialize_account_indices(data, num_accounts.position, num_accounts.value),
        LAMBDA account_indices :
    Try(decode_compact_u16(data, account_indices.position), LAMBDA data_len :
        \* data_bytes[position..position + data_len]: no bounds check precedes
        \* the slice, so an end past the buffer panics
        IF data_len.position + data_len.value > Len(data) THEN Panic
        ELSE OkAt([program_id_index |-> program_id_index.value,
                   account_indices |-> account_indices.value,
                   data |-> SubSeq(data, data_len.position + 1,
                                   data_len.position + data_len.value)],
                  data_len.position + data_len.value)))))

\* for _ in 0..num_instructions { ... instructions.push(...) }
deserialize_instructions(data, position, num_instructions) ==
    LET body(st, i) ==
            IF st.kind # "Ok" THEN st
            ELSE Try(deserialize_instruction(data, st.position), LAMBDA ix :
                     OkAt(Append(st.value, ix.value), ix.position))
    IN  for_each(body, OkAt(<<>>, position), Times(num_instructions), 1, num_instructions)

\* CompiledTransaction::deserialize with the position its cursor ends at.
deserialize_cursor(bytes) ==
    Try(decode_compact_u16(bytes, 0), LAMBDA num_signatures :
    Try(deserialize_signatures(bytes, num_signatures.position, num_signatures.value),
        LAMBDA signatures :
    Try(decode_u8(bytes, signatures.position), LAMBDA num_required_signatures :
    Try(decode_u8(bytes, num_required_signatures.position),
        LAMBDA num_readonly_signed_accounts :
    Try(decode_u8(bytes, num_readonly_signed_accounts.position),
        LAMBDA num_readonly_unsigned_accounts :
    Try(decode_compact_u16(bytes, num_readonly_unsigned_accounts.position),
        LAMBDA num_account_keys :
    Try(deserialize_account_keys(bytes, num_account_keys.position, num_account_keys.value),
        LAMBDA account_keys :
    Try(decode_pubkey(bytes, account_keys.position), LAMBDA blockhash :
    Try(decode_compact_u16(bytes, blockhash.position), LAMBDA num_instructions :
    Try(deserialize_instructions(bytes, num_instructions.position, num_instructions.value),
        LAMBDA ixs :
        OkAt([message |-> [header |-> MessageHeader_new(num_required_signatures.value,
                                         num_readonly_signed_accounts.value,
                                         num_readonly_unsigned_accounts.value),
                           account_keys |-> account_keys.value,
                           recent_blockhash |-> blockhash.value,
                           instructions |-> ixs.value],
              signatures |-> signatures.value],
             ixs.position)))))))))))

deserialize(bytes) ==
    Try(deserialize_cursor(bytes), LAMBDA t : Ok(t.value))

(***************************************************************************)
(* instruction.rs: AccountMeta and RawInstruction.                         *)
(***************************************************************************)
AccountMeta_new(pubkey, is_signer, is_writable) ==
    [pubkey |-> pubkey, is_signer |-> is_signer, is_writable |-> is_writable]

RawInstruction_new(program_id, accounts, data) ==
    [program_id |-> program_id, accounts |-> accounts, data |-> data]

\* ByteSerialize for RawInstruction (lines 117-132): a placeholder byte 0 for
\* the program index and for the index of every account.
RawInstruction_serialize_bytes(r, writer) ==
    LET w1 == encode_u8(0, writer)
        w2 == encode_compact_u16(AsU16(Len(r.accounts)), w1)
        w3 == w2 \o [k \in 1..Len(r.accounts) |-> 0]
        w4 == encode_compact_u16(AsU16(Len(r.data)), w3)
    IN  w4 \o r.data

RawInstruction_byte_size(r) ==
    LET accounts_size == 1 + Len(r.accounts)
        data_len_size == IF Len(r.data) <= 127 THEN 1
                         ELSE IF Len(r.data) <= 16383 THEN 2 ELSE 3
    IN  1 + 1 + accounts_size + data_len_size + Len(r.data)

\* InstructionEncoder::serialize: build() and serialize_bytes into a new Vec.
InstructionEncoder_serialize(program_id, accounts, data) ==
    Ok(RawInstruction_serialize_bytes(RawInstruction_new(program_id, accounts, data), <<>>))

\* InstructionDecoder::decode (lines 246-266).
InstructionDecoder_decode(bytes) ==
    Try(decode_u8(bytes, 0), LAMBDA program_id_index :
    Try(decode_compact_u16(bytes, program_id_index.position), LAMBDA accounts_len :
    Try(deserialize_account_indices(bytes, accounts_len.position, accounts_len.value),
        LAMBDA account_indices :
    Try(decode_compact_u16(bytes, account_indices.position), LAMBDA data_len :
        \* bytes[position..position + data_len as usize]: no bounds check
        \* precedes the slice, so an end past the buffer panics
        IF data_len.position + data_len.value > Len(bytes) THEN Panic
        ELSE Ok([program_id_index |-> program_id_index.value,
                 account_indices |-> account_indices.value,
                 data |-> SubSeq(bytes, data_len.position + 1,
                                 data_len.position + data_len.value)])))))

(***************************************************************************)
(* optimizer.rs: TransactionOptimizer::optimize.                           *)
(***************************************************************************)
OptimizationStrategy == {"Size", "Cost", "Balanced"}

\* consolidate_instructions dropping every instruction.
consolidate_instructions_to_none(t) ==
    Ok([t EXCEPT !.message.instructions = <<>>])

deduplicate_accounts(t) == Ok(t)

consolidate_instructions(t) == Ok(t)

reorder_instructions(t) == Ok(t)

saturating_sub(a, b) == IF a >= b THEN a - b ELSE 0

optimizations_applied(strategy) ==
    IF strategy = "Size" THEN <<"Account deduplication">>
    ELSE IF strategy = "Cost" THEN <<"Instruction consolidation">>
    ELSE <<"Account deduplication", "Instruction ordering">>

optimize(strategy, t) ==
    Eval(size(t), LAMBDA original_size :
    Try(IF strategy = "Size" THEN deduplicate_accounts(t)
        ELSE IF strategy = "Cost" THEN consolidate_instructions(t)
        ELSE Try(deduplicate_accounts(t), LAMBDA deduplicated :
                 reorder_instructions(deduplicated.value)),
        LAMBDA optimized_tx :
    Eval(size(optimized_tx.value), LAMBDA optimized_size :
        Ok([transaction |-> optimized_tx.value,
            report |-> [original_size |-> original_size,
                        optimized_size |-> optimized_size,
                        bytes_saved |-> saturating_sub(original_size, optimized_size),
                        optimizations_applied |-> optimizations_applied(strategy)]]))))

(***************************************************************************)
(* transaction.rs: TransactionBuilder::compile.                            *)
(*                                                                         *)
(* A HashMap is a function on its key set.  The order in which into_iter() *)
(* yields its entries is not specified; compile takes it as the parameter  *)
(* iter_order, a sequence that enumerates the key set.                     *)
(***************************************************************************)
\* account_keys_map.entry(key).or_insert(value)
or_insert(map, key, value) ==
    IF key \in DOMAIN map THEN map
    ELSE map @@ (key :> value)

\* The body of `for account in &instruction.accounts` (lines 330-336).
merge_account(map, account) ==
    Eval(or_insert(map, account.pubkey, <<FALSE, FALSE>>), LAMBDA inserted :
        LET entry == inserted[account.pubkey]
            entry_0 == IF account.is_signer THEN TRUE ELSE entry[1]
            entry_1 == IF account.is_writable THEN TRUE ELSE entry[2]
        IN  [inserted EXCEPT ![account.pubkey] = <<entry_0, entry_1>>])

\* The body of `for instruction in &self.instructions` (lines 325-337).
merge_instruction(map, instruction) ==
    for_each(merge_account,
             or_insert(map, instruction.program_id, <<FALSE, FALSE>>),
             instruction.accounts, 1, Len(instruction.accounts))

\* Lines 317-338: the payer is inserted first as (signer, writable).
account_keys_map(payer_key, ixs) ==
    \* account_keys_map.insert(payer, (true, true)) into the empty map
    for_each(merge_instruction, payer_key :> <<TRUE, TRUE>>, ixs, 1, Len(ixs))

\* Ord on [u8; 32]: lexicographic on the bytes.
RECURSIVE array_less_from(_, _, _)
array_less_from(a, b, i) ==
    IF i > Len(a) THEN FALSE
    ELSE IF a[i] < b[i] THEN TRUE
    ELSE IF a[i] > b[i] THEN FALSE
    ELSE array_less_from(a, b, i + 1)

array_less(a, b) == array_less_from(a, b, 1)

\* Ord on the tuple (priority, key): lexicographic on the components.
tuple_less(x, y) == x[1] < y[1] \/ (x[1] = y[1] /\ array_less(x[2], y[2]))

\* A sort key that leaves the key bytes out: entries of one class compare
\* equal, so the stable sort keeps them in the order the map yielded them.
sort_key_by_class_only(entry) ==
    LET priority == IF entry[2] /\ entry[3] THEN 0
                    ELSE IF entry[2] /\ ~entry[3] THEN 1
                    ELSE IF ~entry[2] /\ entry[3] THEN 2
                    ELSE 3
    IN  <<priority, Key32(0)>>

\* The closure given to sort_by_key (lines 346-354); an entry is
\* (key, is_signer, is_writable).
sort_key(entry) ==
    LET priority == IF entry[2] /\ entry[3] THEN 0
                    ELSE IF entry[2] /\ ~entry[3] THEN 1
                    ELSE IF ~entry[2] /\ entry[3] THEN 2
                    ELSE 3
    IN  <<priority, entry[1]>>

\* The first position in lo..hi + 1 of the sorted vector v whose sort key is
\* greater than that of e (hi + 1 if there is none).
RECURSIVE upper_bound(_, _, _, _)
upper_bound(v, e, lo, hi) ==
    IF lo > hi THEN lo
    ELSE IF tuple_less(sort_key(e), sort_key(v[(lo + hi) \div 2]))
    THEN upper_bound(v, e, lo, ((lo + hi) \div 2) - 1)
    ELSE upper_bound(v, e, ((lo + hi) \div 2) + 1, hi)

\* A step that places e twice.
sort_insert_twice(sorted, e) == sorted \o <<e, e>>

\* One step of the stable sort: e goes after the elements already placed
\* whose key is smaller or equal.
sort_insert(sorted, e) ==
    Eval(upper_bound(sorted, e, 1, Len(sorted)), LAMBDA p :
        SubSeq(sorted, 1, p - 1) \o <<e>> \o SubSeq(sorted, p, Len(sorted)))

\* account_keys.sort_by_key(|..| (priority, *key)): a stable sort, here by
\* insertion of the elements in the order of v.
sort_by_key(v) == for_each(sort_insert, <<>>, v, 1, Len(v))

\* Lines 357-361: key -> (position as u8), collected into a HashMap; a later
\* entry with the same key would replace an earlier one.
account_index_map(account_keys) ==
    [k \in {account_keys[i][1] : i \in 1..Len(account_keys)} |->
        AsU8((CHOOSE i \in 1..Len(account_keys) :
                 /\ account_keys[i][1] = k
                 /\ \A j \in (i + 1)..Len(account_keys) : account_keys[j][1] # k) - 1)]

\* Lines 364-366: account_keys.iter().filter(..).count() as u8
is_writable_signer(e) == e[2] /\ e[3]

is_readonly_signer(e) == e[2] /\ ~e[3]

is_readonly_unsigned(e) == ~e[2] /\ ~e[3]

count_writable_signers(account_keys) ==
    AsU8(Cardinality({i \in 1..Len(account_keys) : is_writable_signer(account_keys[i])}))

count_readonly_signers(account_keys) ==
    AsU8(Cardinality({i \in 1..Len(account_keys) : is_readonly_signer(account_keys[i])}))

count_readonly_unsigned(account_keys) ==
    AsU8(Cardinality({i \in 1..Len(account_keys) : is_readonly_unsigned(account_keys[i])}))

\* u8 + u8: with overflow checks (debug builds) an overflow panics, without
\* them (release builds) it wraps.
add_u8(a, b, checks) ==
    IF a + b < U8_MOD THEN Ok(a + b)
    ELSE IF checks THEN Panic
    ELSE Ok(AsU8(a + b))

\* An instruction compiled with its indices resolved and no payload.
compile_instruction_without_data(instruction, index_map) ==
    Ok([program_id_index |-> index_map[instruction.program_id],
        account_indices |-> [j \in 1..Len(instruction.accounts) |->
                                index_map[instruction.accounts[j].pubkey]],
        data |-> <<>>])

\* Lines 375-401: one instruction of the map over self.instructions.
compile_instruction(instruction, index_map) ==
    IF instruction.program_id \notin DOMAIN index_map
    THEN Err("InvalidInstruction: Program ID not found in accounts")
    ELSE IF \E j \in 1..Len(instruction.accounts) :
                instruction.accounts[j].pubkey \notin DOMAIN index_map
    THEN Err("InvalidInstruction: Account not found in accounts")
    ELSE Ok([program_id_index |-> index_map[instruction.program_id],
             account_indices |-> [j \in 1..Len(instruction.accounts) |->
                                     index_map[instruction.accounts[j].pubkey]],
             data |-> instruction.data])

\* .collect::<Result<Vec<_>>>(): the first Err, or the vector of the values.
compile_instructions(ixs, index_map) ==
    LET body(st, instruction) ==
            IF st.kind # "Ok" THEN st
            ELSE Try(compile_instruction(instruction, index_map), LAMBDA c :
                     Ok(Append(st.value, c.value)))
    IN  for_each(body, Ok(<<>>), ixs, 1, Len(ixs))

\* Lines 340-408, after the three precondition checks.
compile_checked(payer_key, blockhash, ixs, iter_order, checks) ==
    Eval(account_keys_map(payer_key, ixs), LAMBDA map :
    \* into_iter().map(..).collect(): the entries in the map's order
    Eval([i \in 1..Len(iter_order) |->
             <<iter_order[i], map[iter_order[i]][1], map[iter_order[i]][2]>>],
         LAMBDA collected :
    Eval(sort_by_key(collected), LAMBDA account_keys :
    Eval(account_index_map(account_keys), LAMBDA index_map :
    Eval(count_writable_signers(account_keys), LAMBDA num_writable_signers :
    Eval(count_readonly_signers(account_keys), LAMBDA num_readonly_signers :
    Eval(count_readonly_unsigned(account_keys), LAMBDA num_readonly_unsigned :
    Try(add_u8(num_writable_signers, num_readonly_signers, checks), LAMBDA num_required :
    Try(compile_instructions(ixs, index_map), LAMBDA compiled_instructions :
        Ok([header |-> MessageHeader_new(num_required.value, num_readonly_signers,
                                         num_readonly_unsigned),
            account_keys |-> [i \in 1..Len(account_keys) |-> account_keys[i][1]],
            recent_blockhash |-> blockhash,
            instructions |-> compiled_instructions.value]))))))))))

\* compile without the check that an instruction was added.
compile_any_instructions(b_payer, b_blockhash, ixs, iter_order, checks) ==
    IF b_payer = None THEN Err("InvalidTransaction: Payer not set")
    ELSE IF b_blockhash = None THEN Err("InvalidTransaction: Recent blockhash not set")
    ELSE compile_checked(b_payer[1], b_blockhash[1], ixs, iter_order, checks)

\* TransactionBuilder::compile; b_payer and b_blockhash are Options.
compile(b_payer, b_blockhash, ixs, iter_order, checks) ==
    IF b_payer = None THEN Err("InvalidTransaction: Payer not set")
    ELSE IF b_blockhash = None THEN Err("InvalidTransaction: Recent blockhash not set")
    ELSE IF ixs = <<>> THEN Err("InvalidTransaction: No instructions provided")
    ELSE compile_checked(b_payer[1], b_blockhash[1], ixs, iter_order, checks)

(***************************************************************************)
(* Inputs of the codec: CompiledTransaction values.  All fields of the     *)
(* struct are public, so a caller can hand any value to serialize.         *)
(***************************************************************************)
\* [1u8; 32], [2u8; 32], [3u8; 32] as in the tests, and a key that starts
\* like KA and continues above KB, so that KA < KC < KB lexicographically.
KA == Key32(1)

KB == Key32(2)

KC == [i \in 1..PUBKEY_LEN |-> IF i = 1 THEN 1 ELSE 3]

Blockhash == Key32(3)

ZeroSig == [i \in 1..SIGNATURE_LEN |-> 0]

Sig1 == [i \in 1..SIGNATURE_LEN |-> i]

DataOfLen(n) == [i \in 1..n |-> (7 * i) % U8_MOD]

Repeat(x, n) == [i \in 1..n |-> x]

MaxCodecInstructions == 2

\* Buffers up to this length are cut at every position; longer ones only
\* one byte before their end.
FullCutLimit == 300

RECURSIVE SeqsUpTo(_, _)
SeqsUpTo(S, n) ==
    IF n = 0 THEN {<<>>}
    ELSE LET shorter == SeqsUpTo(S, n - 1)
         IN  shorter \cup {Append(s, x) : s \in {t \in shorter : Len(t) = n - 1}, x \in S}

CodecInstruction(p, a, d) == [program_id_index |-> p, account_indices |-> a, data |-> d]

CodecInstructionPool ==
    { CodecInstruction(0, <<>>, <<>>),
      CodecInstruction(1, <<0>>, <<42>>),
      CodecInstruction(2, <<1, 0, 1>>, DataOfLen(3)),
      CodecInstruction(255, <<255>>, <<128, 0>>) }

CodecFrames ==
    { [signatures |-> <<>>, header |-> MessageHeader_new(0, 0, 0), account_keys |-> <<>>],
      [signatures |-> <<ZeroSig>>, header |-> MessageHeader_new(1, 0, 1),
       account_keys |-> <<KA, KB>>],
      [signatures |-> <<Sig1, ZeroSig>>, header |-> MessageHeader_new(2, 1, 0),
       account_keys |-> <<KB, KA, KC>>],
      [signatures |-> <<Sig1>>, header |-> MessageHeader_new(255, 0, 7),
       account_keys |-> <<KA>>] }

CodecTx(frame, ixs) ==
    [message |-> [header |-> frame.header,
                  account_keys |-> frame.account_keys,
                  recent_blockhash |-> Blockhash,
                  instructions |-> ixs],
     signatures |-> frame.signatures]

\* Lengths on both sides of each width boundary of the compact-u16 prefix
\* (0x7f, 0x3fff) and of the u16 it is cast to (0xffff).
BoundaryLens == {127, 128, 16383, 16384, 65535, 65536}

BoundaryFrame ==
    [signatures |-> <<ZeroSig>>, header |-> MessageHeader_new(1, 0, 1),
     account_keys |-> <<KA, KB>>]

BoundaryTxs ==
    { CodecTx(BoundaryFrame, <<CodecInstruction(1, <<0>>, DataOfLen(n))>>) : n \in BoundaryLens }
    \cup
    { CodecTx(BoundaryFrame, <<CodecInstruction(1, Repeat(0, n), <<42>>)>>) : n \in BoundaryLens }
    \cup
    { CodecTx([signatures |-> Repeat(ZeroSig, n), header |-> MessageHeader_new(n, 0, 0),
               account_keys |-> Repeat(KA, n)],
              <<CodecInstruction(0, <<>>, <<>>)>>) : n \in {127, 128} }
    \cup
    { CodecTx(BoundaryFrame, Repeat(CodecInstruction(0, <<>>, <<>>), n)) : n \in {65536} }

CodecTxs ==
    { CodecTx(f, ixs) : f \in CodecFrames,
                        ixs \in SeqsUpTo(CodecInstructionPool, MaxCodecInstructions) }
    \cup BoundaryTxs

Cuts(bytes) ==
    IF Len(bytes) <= FullCutLimit THEN 0..Len(bytes) ELSE {Len(bytes) - 1, Len(bytes)}

(***************************************************************************)
(* The codec applied to one CompiledTransaction value: each action is one  *)
(* call of a method of the value in tx, its result kept in a variable.     *)
(* The variables keep every Vec<u8> cut into pages of PageLen bytes; the   *)
(* operators below convert between a vector and its pages, and the state   *)
(* functions the_tx .. the_decoded give the values the variables stand for.*)
(***************************************************************************)
PageLen == 256

Pages(s) ==
    [k \in 1..((Len(s) + PageLen - 1) \div PageLen) |->
        SubSeq(s, ((k - 1) * PageLen) + 1,
               IF k * PageLen <= Len(s) THEN k * PageLen ELSE Len(s))]

\* The pages lo..hi joined, in order.
RECURSIVE FlatRange(_, _, _)
FlatRange(pages, lo, hi) ==
    IF lo > hi THEN <<>>
    ELSE IF lo = hi THEN pages[lo]
    ELSE FlatRange(pages, lo, (lo + hi) \div 2)
             \o FlatRange(pages, ((lo + hi) \div 2) + 1, hi)

Flat(pages) == FlatRange(pages, 1, Len(pages))

PagedInstruction(ix) ==
    [program_id_index |-> ix.program_id_index,
     account_indices |-> Pages(ix.account_indices),
     data |-> Pages(ix.data)]

FlatInstruction(ix) ==
    [program_id_index |-> ix.program_id_index,
     account_indices |-> Flat(ix.account_indices),
     data |-> Flat(ix.data)]

\* The Vec<CompiledInstruction> is cut into pages as well.
PagedTx(t) ==
    [t EXCEPT !.message.instructions =
        Pages([k \in 1..Len(t.message.instructions) |->
                  PagedInstruction(t.message.instructions[k])])]

\* The instructions of the pages lo..hi, in order.
RECURSIVE FlatInstructionRange(_, _, _)
FlatInstructionRange(pages, lo, hi) ==
    IF lo > hi THEN <<>>
    ELSE IF lo = hi
    THEN [k \in 1..Len(pages[lo]) |-> FlatInstruction(pages[lo][k])] \o <<>>
    ELSE FlatInstructionRange(pages, lo, (lo + hi) \div 2)
             \o FlatInstructionRange(pages, ((lo + hi) \div 2) + 1, hi)

FlatTx(t) ==
    [t EXCEPT !.message.instructions =
        FlatInstructionRange(t.message.instructions, 1, Len(t.message.instructions))]

\* A Result<Vec<u8>> and a Result<CompiledTransaction>.
PagedBytesResult(res) == IF res.kind = "Ok" THEN Ok(Pages(res.value)) ELSE res

FlatBytesResult(res) == IF res.kind = "Ok" THEN Ok(Flat(res.value)) ELSE res

PagedTxResult(res) == IF res.kind = "Ok" THEN Ok(PagedTx(res.value)) ELSE res

FlatTxResult(res) == IF res.kind = "Ok" THEN Ok(FlatTx(res.value)) ELSE res

\* The transaction the methods are called on.
the_tx == FlatTx(tx[1])

\* What tx.serialize() returned.
the_wire == FlatBytesResult(wire[1])

\* What tx.message_bytes() returned.
the_msg_bytes == FlatBytesResult(msg_bytes[1])

\* The buffer handed to deserialize, and what deserialize returned.
the_buf == Flat(buf[1])

the_decoded == FlatTxResult(decoded[1])

InitCursorIdle ==
    /\ input_value = None
    /\ cursor_data = <<>>
    /\ cursor_start = 0
    /\ cursor_position = 0
    /\ ppc = "idle"
    /\ returned = None
    /\ reencoded = None

InitRawIdle ==
    /\ raw = None
    /\ rpc = "idle"
    /\ raw_bytes = None
    /\ raw_size = None
    /\ encoder_bytes = None

InitBuilderIdle ==
    /\ payer = None
    /\ recent_blockhash = None
    /\ instructions = <<>>
    /\ overflow_checks = FALSE
    /\ pc = "idle"
    /\ result = None
    /\ added = <<>>
    /\ signers = <<>>

InitCodec ==
    /\ InitBuilderIdle
    /\ tx \in {Some(PagedTx(t)) : t \in CodecTxs}
    /\ cpc = "input"
    /\ wire = None
    /\ msg_bytes = None
    /\ tx_size = None
    /\ msg_byte_size = None
    /\ buf = None
    /\ decoded = None
    /\ optimized = None
    /\ InitCursorIdle
    /\ InitRawIdle

\* tx.serialize()
Serialize ==
    /\ cpc = "input"
    /\ wire' = Some(PagedBytesResult(serialize(the_tx)))
    /\ cpc' = "serialized"
    /\ UNCHANGED <<tx, msg_bytes, tx_size, msg_byte_size, buf, decoded>>
    /\ UNCHANGED builder_vars
    /\ UNCHANGED other_vars

\* tx.message_bytes()
MessageBytes ==
    /\ cpc = "serialized"
    /\ msg_bytes' = Some(PagedBytesResult(message_bytes(the_tx)))
    /\ cpc' = "message_bytes"
    /\ UNCHANGED <<tx, wire, tx_size, msg_byte_size, buf, decoded>>
    /\ UNCHANGED builder_vars
    /\ UNCHANGED other_vars

\* tx.size()
Size ==
    /\ cpc = "message_bytes"
    /\ tx_size' = Some(size(the_tx))
    /\ cpc' = "sized"
    /\ UNCHANGED <<tx, wire, msg_bytes, msg_byte_size, buf, decoded>>
    /\ UNCHANGED builder_vars
    /\ UNCHANGED other_vars

\* tx.message.byte_size()
ByteSize ==
    /\ cpc = "sized"
    /\ msg_byte_size' = Some(message_byte_size(the_tx.message))
    /\ cpc' = "measured"
    /\ UNCHANGED <<tx, wire, msg_bytes, tx_size, buf, decoded>>
    /\ UNCHANGED builder_vars
    /\ UNCHANGED other_vars

\* CompiledTransaction::deserialize(&bytes[..n]) on the serialized bytes or a
\* prefix of them
Deserialize ==
    /\ cpc = "measured"
    /\ \E n \in Cuts(the_wire.value) :
          /\ buf' = Some(Pages(SubSeq(the_wire.value, 1, n)))
          /\ decoded' = Some(PagedTxResult(deserialize(SubSeq(the_wire.value, 1, n))))
    /\ cpc' = "decoded"
    /\ UNCHANGED <<tx, wire, msg_bytes, tx_size, msg_byte_size>>
    /\ UNCHANGED builder_vars
    /\ UNCHANGED other_vars

NextCodec ==
    \/ Serialize
    \/ MessageBytes
    \/ Size
    \/ ByteSize
    \/ Deserialize

SpecCodec == InitCodec /\ [][NextCodec]_vars

(***************************************************************************)
(* Properties of the codec, over the behaviours of SpecCodec.              *)
(***************************************************************************)
\* C1: round trip.  Deserializing the whole output of serialize succeeds
\* and returns a transaction equal to the serialized one in every field.
RoundTrip ==
    (cpc = "decoded" /\ the_buf = the_wire.value) => the_decoded = Ok(the_tx)

\* C2: message size exactness.  byte_size() of the message is the number
\* of bytes serialize_bytes writes for it.
MessageSizeExact ==
    cpc \in {"measured", "decoded"} => msg_byte_size[1] = Len(the_msg_bytes.value)

\* C3: transaction size exactness.  size() is the length of the vector
\* serialize() returns.
TransactionSizeExact ==
    cpc \in {"sized", "measured", "decoded"} => tx_size[1] = Len(the_wire.value)

\* The errors the decoders return when the buffer ends inside a field.
TruncatedInputErrors ==
    {"BufferTooSmall", "DeserializationError: Unexpected end of buffer"}

\* C4: truncated transaction decode.  Deserializing a strict prefix of a
\* serialized transaction returns an error of the truncated-input kind: it
\* neither panics nor returns Ok.
TruncatedDecodeIsError ==
    (cpc = "decoded" /\ Len(the_buf) < Len(the_wire.value))
        => (the_decoded.kind = "Err" /\ the_decoded.err \in TruncatedInputErrors)

(***************************************************************************)
(* Inputs of the builder.                                                  *)
(***************************************************************************)
MaxInstructions == 2

\* Key sets up to this size are enumerated by into_iter() in every order;
\* larger ones in insertion order and in its reverse.
MaxShuffled == 4

PayerPool == {KB, KC}

BlockhashPool == {Blockhash}

ReadonlyMeta(key) == AccountMeta_new(key, FALSE, FALSE)

AccountListPool ==
    { <<>>,
      <<ReadonlyMeta(KA)>>,
      <<AccountMeta_new(KA, TRUE, TRUE)>>,
      <<AccountMeta_new(KA, TRUE, FALSE), ReadonlyMeta(KB)>>,
      <<AccountMeta_new(KB, FALSE, TRUE), ReadonlyMeta(KB)>>,
      <<AccountMeta_new(KC, FALSE, TRUE), AccountMeta_new(KC, TRUE, FALSE)>> }

InstructionPool ==
    { RawInstruction_new(program_id, accounts, IF program_id = KC THEN <<42>> ELSE <<>>) :
        program_id \in {KA, KC}, accounts \in AccountListPool }

\* 256 further keys, all above the keys of the pools.
WideKey(i) == [j \in 1..PUBKEY_LEN |-> IF j = 1 THEN 255 ELSE IF j = 2 THEN i ELSE 0]

WideAccounts(n, is_signer, is_writable) ==
    [i \in 1..n |-> AccountMeta_new(WideKey(i - 1), is_signer, is_writable)]

\* Instructions that, with the payer and the program, name 255, 256 and more
\* distinct keys.
WidePool ==
    { RawInstruction_new(KC, WideAccounts(253, FALSE, FALSE), <<>>),
      RawInstruction_new(KC, WideAccounts(254, FALSE, FALSE), <<>>),
      RawInstruction_new(KC, WideAccounts(256, FALSE, FALSE), <<>>),
      RawInstruction_new(KC, WideAccounts(255, TRUE, TRUE), <<>>),
      RawInstruction_new(KC, [i \in 1..256 |-> AccountMeta_new(WideKey(i - 1), TRUE, i <= 200)],
                         <<>>) }

\* The instructions offered to add_instruction: a wide instruction only as
\* the single instruction of a transaction.
Offered(ixs) ==
    IF ixs = <<>> THEN InstructionPool \cup WidePool
    ELSE IF ixs[1] \in WidePool THEN {}
    ELSE InstructionPool

Perms(S) ==
    LET n == Cardinality(S)
    IN  {f \in [1..n -> S] : {f[i] : i \in 1..n} = S}

Reverse(s) == [i \in 1..Len(s) |-> s[Len(s) + 1 - i]]

\* The keys in the order in which lines 320-337 insert them into the map.
FirstSeen(payer_key, ixs) ==
    LET refs(ix) == <<ix.program_id>> \o [j \in 1..Len(ix.accounts) |-> ix.accounts[j].pubkey]
        append_refs(acc, ix) == acc \o refs(ix)
    IN  Eval(for_each(append_refs, <<payer_key>>, ixs, 1, Len(ixs)), LAMBDA named :
        Eval([i \in 1..Len(named) |-> <<i, named[i]>>], LAMBDA numbered :
            LET first(p) == \A j \in 1..(p[1] - 1) : named[j] # p[2]
                firsts == SelectSeq(numbered, first)
            IN  [i \in 1..Len(firsts) |-> firsts[i][2]]))

\* The enumeration orders of the HashMap that the model explores: every
\* order of a small key set, insertion order and its reverse of a larger one.
IterOrders(payer_key, ixs) ==
    Eval(FirstSeen(payer_key, ixs), LAMBDA seen :
        IF Len(seen) <= MaxShuffled THEN Perms({seen[i] : i \in 1..Len(seen)})
        ELSE {seen, Reverse(seen)})

\* Every key the payer and the instructions name.
NamedKeys(payer_key, ixs) ==
    {payer_key}
    \cup {ixs[k].program_id : k \in 1..Len(ixs)}
    \cup UNION {{ixs[k].accounts[j].pubkey : j \in 1..Len(ixs[k].accounts)} : k \in 1..Len(ixs)}

\* The lists offered to add_instructions: any list of pool instructions
\* that fits, the empty list included.
OfferedLists(ixs) ==
    IF ixs # <<>> /\ ixs[1] \in WidePool THEN {<<>>}
    ELSE SeqsUpTo(InstructionPool, MaxInstructions - Len(ixs))

\* A Keypair is named by its 32-byte public key.  build_and_sign takes any
\* slice of keypairs; it compares only their number with the header.
MaxSigners == 2

SignerPool == {KA, KB}

SignerLists == SeqsUpTo(SignerPool, MaxSigners)

(***************************************************************************)
(* transaction.rs: build_unsigned and build_and_sign.  Both start with     *)
(* `let message = self.compile()?`; compiled is what that call returned.   *)
(***************************************************************************)
\* build_unsigned with one slot for every account key.
build_unsigned_slot_per_key(compiled) ==
    Try(compiled, LAMBDA message :
        Ok([message |-> message.value,
            signatures |-> Repeat(ZeroSig, Len(message.value.account_keys))]))

build_unsigned(compiled) ==
    Try(compiled, LAMBDA message :
        Ok([message |-> message.value,
            signatures |-> Repeat(ZeroSig, message.value.header.num_required_signatures)]))

\* signer.sign_message(&message_bytes) of the Solana SDK: the Ed25519
\* signature, kept as the term that determines it (the keypair and the
\* exact bytes signed) instead of its 64 bytes.
sign_message(keypair, bytes) == [signer |-> keypair, signed |-> bytes]

SignatureError(num_required, given) ==
    "SignatureError: Expected " \o ToString(num_required)
        \o " signers, got " \o ToString(given)

\* build_and_sign without the check of the number of keypairs.
build_and_sign_any_count(compiled, keypairs) ==
    Try(compiled, LAMBDA message :
    Eval(message_serialize_bytes(message.value, <<>>), LAMBDA bytes :
        Ok([message |-> message.value,
            signatures |-> [i \in 1..Len(keypairs) |-> sign_message(keypairs[i], bytes)]])))

\* build_and_sign filling the slots from the last keypair to the first.
build_and_sign_reversed(compiled, keypairs) ==
    Try(compiled, LAMBDA message :
    Eval(message_serialize_bytes(message.value, <<>>), LAMBDA bytes :
        IF Len(keypairs) # message.value.header.num_required_signatures
        THEN Err(SignatureError(message.value.header.num_required_signatures, Len(keypairs)))
        ELSE Ok([message |-> message.value,
                 signatures |-> [i \in 1..Len(keypairs) |->
                                    sign_message(keypairs[Len(keypairs) + 1 - i], bytes)]])))

build_and_sign(compiled, keypairs) ==
    Try(compiled, LAMBDA message :
    Eval(message_serialize_bytes(message.value, <<>>), LAMBDA bytes :
        IF Len(keypairs) # message.value.header.num_required_signatures
        THEN Err(SignatureError(message.value.header.num_required_signatures,
                                Len(keypairs)))
        ELSE Ok([message |-> message.value,
                 signatures |-> [i \in 1..Len(keypairs) |->
                                    sign_message(keypairs[i], bytes)]])))

(***************************************************************************)
(* The builder: TransactionBuilder::new(), the fluent setters, compile,    *)
(* build_unsigned and build_and_sign.                                      *)
(***************************************************************************)
InitCodecIdle ==
    /\ tx = None
    /\ cpc = "idle"
    /\ wire = None
    /\ msg_bytes = None
    /\ tx_size = None
    /\ msg_byte_size = None
    /\ buf = None
    /\ decoded = None

Init ==
    /\ payer = None
    /\ recent_blockhash = None
    /\ instructions = <<>>
    /\ overflow_checks \in BOOLEAN
    /\ pc = "building"
    /\ result = None
    /\ added = <<>>
    /\ signers = <<>>
    /\ InitCodecIdle
    /\ optimized = None
    /\ InitCursorIdle
    /\ InitRawIdle

\* builder.payer(key)
SetPayer(key) ==
    /\ pc = "building"
    /\ payer' = Some(key)
    /\ UNCHANGED <<recent_blockhash, instructions, overflow_checks, pc, result, added, signers>>
    /\ UNCHANGED codec_vars
    /\ UNCHANGED other_vars

\* builder.recent_blockhash(blockhash)
SetRecentBlockhash(blockhash) ==
    /\ pc = "building"
    /\ recent_blockhash' = Some(blockhash)
    /\ UNCHANGED <<payer, instructions, overflow_checks, pc, result, added, signers>>
    /\ UNCHANGED codec_vars
    /\ UNCHANGED other_vars

\* builder.add_instruction(instruction)
AddInstruction(instruction) ==
    /\ pc = "building"
    /\ Len(instructions) < MaxInstructions
    /\ instructions' = Append(instructions, instruction)
    /\ added' = Append(added, instruction)
    /\ UNCHANGED <<payer, recent_blockhash, overflow_checks, pc, result, signers>>
    /\ UNCHANGED codec_vars
    /\ UNCHANGED other_vars

\* builder.add_instructions(list): self.instructions.extend(list)
AddInstructions(list) ==
    /\ pc = "building"
    /\ Len(instructions) + Len(list) <= MaxInstructions
    /\ instructions' = instructions \o list
    /\ added' = added \o list
    /\ UNCHANGED <<payer, recent_blockhash, overflow_checks, pc, result, signers>>
    /\ UNCHANGED codec_vars
    /\ UNCHANGED other_vars

\* builder.compile(): consumes the builder; its fields stay in the state as
\* the record of what was compiled.
Compile ==
    /\ pc = "building"
    /\ \E iter_order \in (IF payer = None THEN {<<>>}
                          ELSE IterOrders(payer[1], instructions)) :
          result' = Some(compile(payer, recent_blockhash, instructions,
                                 iter_order, overflow_checks))
    /\ pc' = "compiled"
    /\ UNCHANGED <<payer, recent_blockhash, instructions, overflow_checks, added, signers>>
    /\ UNCHANGED codec_vars
    /\ UNCHANGED other_vars

\* builder.build_unsigned()
BuildUnsigned ==
    /\ pc = "building"
    /\ \E iter_order \in (IF payer = None THEN {<<>>}
                          ELSE IterOrders(payer[1], instructions)) :
          result' = Some(build_unsigned(compile(payer, recent_blockhash, instructions,
                                                iter_order, overflow_checks)))
    /\ pc' = "built_unsigned"
    /\ UNCHANGED <<payer, recent_blockhash, instructions, overflow_checks, added, signers>>
    /\ UNCHANGED codec_vars
    /\ UNCHANGED other_vars

\* builder.build_and_sign(&keypairs)
BuildAndSign ==
    /\ pc = "building"
    /\ \E iter_order \in (IF payer = None THEN {<<>>}
                          ELSE IterOrders(payer[1], instructions)) :
          \E compiled \in {compile(payer, recent_blockhash, instructions,
                                   iter_order, overflow_checks)} :
              \E keypairs \in SignerLists :
                  /\ signers' = keypairs
                  /\ result' = Some(build_and_sign(compiled, keypairs))
    /\ pc' = "signed"
    /\ UNCHANGED <<payer, recent_blockhash, instructions, overflow_checks, added>>
    /\ UNCHANGED codec_vars
    /\ UNCHANGED other_vars

Next ==
    \/ \E key \in PayerPool : SetPayer(key)
    \/ \E blockhash \in BlockhashPool : SetRecentBlockhash(blockhash)
    \/ \E instruction \in Offered(instructions) : AddInstruction(instruction)
    \/ \E list \in OfferedLists(instructions) : AddInstructions(list)
    \/ Compile
    \/ BuildUnsigned
    \/ BuildAndSign

Spec == Init /\ [][Next]_vars

(***************************************************************************)
(* The optimizer applied to a CompiledTransaction value.                   *)
(***************************************************************************)
\* TransactionOptimizer::new(strategy).optimize(tx)
Optimize(strategy) ==
    /\ cpc = "input"
    /\ optimized = None
    /\ \E res \in {optimize(strategy, the_tx)} :
          optimized' = Some([strategy |-> strategy,
                             kind |-> res.kind,
                             transaction |-> PagedTx(res.value.transaction),
                             report |-> res.value.report])
    /\ UNCHANGED codec_vars
    /\ UNCHANGED builder_vars
    /\ UNCHANGED <<cursor_vars, raw_vars>>

NextOptimizer == \E strategy \in OptimizationStrategy : Optimize(strategy)

SpecOptimizer == InitCodec /\ [][NextOptimizer]_vars

(***************************************************************************)
(* encode_compact_u16 followed by decode_compact_u16, for every u16.       *)
(***************************************************************************)
InitCompactU16 ==
    /\ InitBuilderIdle
    /\ InitCodecIdle
    /\ optimized = None
    /\ InitRawIdle
    /\ input_value \in {Some(v) : v \in 0..(U16_MOD - 1)}
    /\ cursor_data = <<>>
    /\ cursor_start = 0
    /\ cursor_position = 0
    /\ ppc = "value"
    /\ returned = None
    /\ reencoded = None

\* encode_compact_u16(value, &mut buf) into an empty Vec, and a cursor at the
\* start of what was written
EncodeCompactU16 ==
    /\ ppc = "value"
    /\ cursor_data' = encode_compact_u16(input_value[1], <<>>)
    /\ ppc' = "ready"
    /\ UNCHANGED <<input_value, cursor_start, cursor_position, returned, reencoded>>
    /\ UNCHANGED <<builder_vars, codec_vars, optimized, raw_vars>>

\* decode_compact_u16(&mut cursor)
DecodeCompactU16 ==
    /\ ppc = "ready"
    /\ returned' = Some(decode_compact_u16(cursor_data, cursor_start))
    /\ cursor_position' = decode_compact_u16_cursor(cursor_data, cursor_start)
    /\ ppc' = "decode_compact_u16"
    /\ UNCHANGED <<input_value, cursor_data, cursor_start, reencoded>>
    /\ UNCHANGED <<builder_vars, codec_vars, optimized, raw_vars>>

NextCompactU16 ==
    \/ EncodeCompactU16
    \/ DecodeCompactU16

SpecCompactU16 == InitCompactU16 /\ [][NextCompactU16]_vars

(***************************************************************************)
(* The decoders applied to a cursor over any buffer.                       *)
(***************************************************************************)
MaxBufferLen == 4

\* A zero, a small value, the continuation bit alone and all bits set.
BufferBytes == {0, 2, 128, 255}

SmallBuffers == SeqsUpTo(BufferBytes, MaxBufferLen)

\* Buffers around the sizes of a u64 and of a public key.
FieldBuffers == {Repeat(1, n) : n \in {7, 8, 9, 31, 32, 33}}

\* An instruction with two account indices and two data bytes, whole and cut
\* inside the data and inside the account indices.
InstructionBuffers ==
    {SubSeq(<<7, 2, 0, 1, 2, 9, 9>>, 1, n) : n \in {3, 6, 7}}

\* Encodings of the count 0: the one encode_compact_u16 writes, and longer
\* ones.
ZeroCounts == {<<0>>, <<128, 0>>, <<128, 128, 0>>, <<128, 128, 4>>}

\* Transactions without signatures, keys and instructions, with every
\* combination of the encodings of the three counts; and a transaction with
\* a signature, two keys and an instruction, alone and followed by one more
\* byte.
TransactionBuffers ==
    { sigs \o <<0, 0, 0>> \o keys \o Blockhash \o ixs :
          sigs \in ZeroCounts, keys \in ZeroCounts, ixs \in ZeroCounts }
    \cup
    { serialize(CodecTx(BoundaryFrame, <<CodecInstruction(1, <<0>>, <<42>>)>>)).value \o tail :
          tail \in {<<>>, <<0>>} }

InitDecoders ==
    /\ InitBuilderIdle
    /\ InitCodecIdle
    /\ optimized = None
    /\ InitRawIdle
    /\ input_value = None
    /\ cursor_data \in SmallBuffers \cup FieldBuffers \cup InstructionBuffers
                          \cup TransactionBuffers
    /\ cursor_start \in IF cursor_data \in SmallBuffers THEN 0..Len(cursor_data) ELSE {0}
    /\ cursor_position = cursor_start
    /\ ppc = "ready"
    /\ returned = None
    /\ reencoded = None

\* Where a decoder that moves the cursor only when it succeeds leaves it.
cursor_after(res, position) == IF res.kind = "Ok" THEN res.position ELSE position

\* decode_u8(&mut cursor)
DecodeU8 ==
    /\ ppc = "ready"
    /\ \E res \in {decode_u8(cursor_data, cursor_start)} :
          /\ returned' = Some(res)
          /\ cursor_position' = cursor_after(res, cursor_start)
    /\ ppc' = "decode_u8"
    /\ UNCHANGED <<input_value, cursor_data, cursor_start, reencoded>>
    /\ UNCHANGED <<builder_vars, codec_vars, optimized, raw_vars>>

\* decode_u64(&mut cursor)
DecodeU64 ==
    /\ ppc = "ready"
    /\ \E res \in {decode_u64(cursor_data, cursor_start)} :
          /\ returned' = Some(res)
          /\ cursor_position' = cursor_after(res, cursor_start)
    /\ ppc' = "decode_u64"
    /\ UNCHANGED <<input_value, cursor_data, cursor_start, reencoded>>
    /\ UNCHANGED <<builder_vars, codec_vars, optimized, raw_vars>>

\* decode_pubkey(&mut cursor)
DecodePubkey ==
    /\ ppc = "ready"
    /\ \E res \in {decode_pubkey(cursor_data, cursor_start)} :
          /\ returned' = Some(res)
          /\ cursor_position' = cursor_after(res, cursor_start)
    /\ ppc' = "decode_pubkey"
    /\ UNCHANGED <<input_value, cursor_data, cursor_start, reencoded>>
    /\ UNCHANGED <<builder_vars, codec_vars, optimized, raw_vars>>

\* decode_length_prefixed(&mut cursor)
DecodeLengthPrefixed ==
    /\ ppc = "ready"
    /\ returned' = Some(decode_length_prefixed(cursor_data, cursor_start))
    /\ cursor_position' = decode_length_prefixed_cursor(cursor_data, cursor_start)
    /\ ppc' = "decode_length_prefixed"
    /\ UNCHANGED <<input_value, cursor_data, cursor_start, reencoded>>
    /\ UNCHANGED <<builder_vars, codec_vars, optimized, raw_vars>>

\* InstructionDecoder::decode(&bytes): a new cursor at the start of bytes
DecodeInstruction ==
    /\ ppc = "ready"
    /\ cursor_start = 0
    /\ returned' = Some(InstructionDecoder_decode(cursor_data))
    /\ ppc' = "InstructionDecoder::decode"
    /\ UNCHANGED <<input_value, cursor_data, cursor_start, cursor_position, reencoded>>
    /\ UNCHANGED <<builder_vars, codec_vars, optimized, raw_vars>>

\* CompiledTransaction::deserialize(&bytes): a new cursor at the start
DeserializeTransaction ==
    /\ ppc = "ready"
    /\ cursor_start = 0
    /\ \E res \in {deserialize_cursor(cursor_data)} :
          /\ returned' = Some(IF res.kind = "Ok" THEN Ok(res.value) ELSE res)
          /\ cursor_position' = cursor_after(res, cursor_start)
    /\ ppc' = "deserialize"
    /\ UNCHANGED <<input_value, cursor_data, cursor_start, reencoded>>
    /\ UNCHANGED <<builder_vars, codec_vars, optimized, raw_vars>>

\* serialize() of the transaction deserialize returned
Reserialize ==
    /\ ppc = "deserialize"
    /\ returned[1].kind = "Ok"
    /\ reencoded' = Some(serialize(returned[1].value))
    /\ ppc' = "reserialized"
    /\ UNCHANGED <<input_value, cursor_data, cursor_start, cursor_position, returned>>
    /\ UNCHANGED <<builder_vars, codec_vars, optimized, raw_vars>>

NextDecoders ==
    \/ DecodeU8
    \/ DecodeU64
    \/ DecodePubkey
    \/ DecodeLengthPrefixed
    \/ DecodeCompactU16
    \/ DecodeInstruction
    \/ DeserializeTransaction
    \/ Reserialize

SpecDecoders == InitDecoders /\ [][NextDecoders]_vars

(***************************************************************************)
(* serialize_bytes, byte_size and InstructionEncoder::serialize of a       *)
(* RawInstruction.  The data and the bytes written are kept in pages.      *)
(***************************************************************************)
\* Numbers of accounts and data lengths on both sides of the boundaries of
\* the one- and two-byte length prefixes.
RawAccountCounts == {0, 1, 2, 127, 128}

RawDataLens == {0, 1, 127, 128, 16383, 16384}

RawInstructions ==
    { RawInstruction_new(program_id,
                         [k \in 1..n |-> AccountMeta_new(WideKey(k - 1), k = 1, k <= 2)],
                         DataOfLen(d)) :
          program_id \in {KA, KC}, n \in RawAccountCounts, d \in RawDataLens }

the_raw == [raw[1] EXCEPT !.data = Flat(raw[1].data)]

InitRaw ==
    /\ InitBuilderIdle
    /\ InitCodecIdle
    /\ optimized = None
    /\ InitCursorIdle
    /\ raw \in {Some([r EXCEPT !.data = Pages(r.data)]) : r \in RawInstructions}
    /\ rpc = "input"
    /\ raw_bytes = None
    /\ raw_size = None
    /\ encoder_bytes = None

\* raw.serialize_bytes(&mut writer) with an empty writer
RawSerializeBytes ==
    /\ rpc = "input"
    /\ raw_bytes' = Some(Pages(RawInstruction_serialize_bytes(the_raw, <<>>)))
    /\ rpc' = "serialized"
    /\ UNCHANGED <<raw, raw_size, encoder_bytes>>
    /\ UNCHANGED <<builder_vars, codec_vars, optimized, cursor_vars>>

\* raw.byte_size()
RawByteSize ==
    /\ rpc = "serialized"
    /\ raw_size' = Some(RawInstruction_byte_size(the_raw))
    /\ rpc' = "sized"
    /\ UNCHANGED <<raw, raw_bytes, encoder_bytes>>
    /\ UNCHANGED <<builder_vars, codec_vars, optimized, cursor_vars>>

\* InstructionEncoder::new(program_id).accounts(..).data(..).serialize()
EncoderSerialize ==
    /\ rpc = "sized"
    /\ \E res \in {InstructionEncoder_serialize(the_raw.program_id, the_raw.accounts,
                                                the_raw.data)} :
          encoder_bytes' = Some(PagedBytesResult(res))
    /\ rpc' = "encoded"
    /\ UNCHANGED <<raw, raw_bytes, raw_size>>
    /\ UNCHANGED <<builder_vars, codec_vars, optimized, cursor_vars>>

NextRaw ==
    \/ RawSerializeBytes
    \/ RawByteSize
    \/ EncoderSerialize

SpecRaw == InitRaw /\ [][NextRaw]_vars

(***************************************************************************)
(* Properties of the builder, over the behaviours of Spec.  The flags of   *)
(* a key are stated here from the builder's inputs, not from the map the   *)
(* code builds.                                                            *)
(***************************************************************************)
\* compile ran with payer, blockhash and at least one instruction present.
compile_ran ==
    /\ pc = "compiled"
    /\ payer # None
    /\ recent_blockhash # None
    /\ instructions # <<>>

\* compile returned Ok(message).
compiled_ok == pc = "compiled" /\ result[1].kind = "Ok"

compiled_message == result[1].value

\* Some AccountMeta of some instruction names key with the flag set.
NamedAsSigner(key) ==
    \E k \in 1..Len(instructions) : \E j \in 1..Len(instructions[k].accounts) :
        instructions[k].accounts[j].pubkey = key /\ instructions[k].accounts[j].is_signer

NamedAsWritable(key) ==
    \E k \in 1..Len(instructions) : \E j \in 1..Len(instructions[k].accounts) :
        instructions[k].accounts[j].pubkey = key /\ instructions[k].accounts[j].is_writable

IsSigner(key) == key = payer[1] \/ NamedAsSigner(key)

IsWritable(key) == key = payer[1] \/ NamedAsWritable(key)

\* 0 writable signer, 1 readonly signer, 2 writable non-signer, 3 readonly
\* non-signer.
ClassOf(key) ==
    IF IsSigner(key) THEN (IF IsWritable(key) THEN 0 ELSE 1)
    ELSE (IF IsWritable(key) THEN 2 ELSE 3)

\* key is at the 0-based position index of keys.
IsAt(keys, index, key) == index + 1 \in 1..Len(keys) /\ keys[index + 1] = key

\* C5: payer is first.  In every compiled message account_keys[0] is the
\* payer key.
PayerIsFirst ==
    compiled_ok => compiled_message.account_keys[1] = payer[1]

\* C6: payer invariant.  In every compiled message the payer lies among the
\* first num_required_signatures - num_readonly_signed_accounts positions
\* of account_keys, and num_required_signatures >= 1.
PayerIsWritableSigner ==
    compiled_ok =>
        LET header == compiled_message.header
            keys == compiled_message.account_keys
        IN  /\ header.num_required_signatures >= 1
            /\ \E i \in 1..Len(keys) :
                  /\ keys[i] = payer[1]
                  /\ i <= header.num_required_signatures
                          - header.num_readonly_signed_accounts

\* C7: account ceiling.  When payer and instructions name more than 255
\* distinct keys, compile returns the TooManyAccounts error.
AccountCeiling ==
    (compile_ran /\ Cardinality(NamedKeys(payer[1], instructions)) > 255)
        => result[1] = Err("TooManyAccounts")

\* C8: header consistency.  The three header counts of a compiled message
\* are the numbers of signer keys, of readonly signer keys and of readonly
\* non-signer keys among the keys that payer and instructions name.
HeaderConsistent ==
    compiled_ok =>
        LET header == compiled_message.header
            named == NamedKeys(payer[1], instructions)
        IN  /\ header.num_required_signatures
                   = Cardinality({key \in named : ClassOf(key) \in {0, 1}})
            /\ header.num_readonly_signed_accounts
                   = Cardinality({key \in named : ClassOf(key) = 1})
            /\ header.num_readonly_unsigned_accounts
                   = Cardinality({key \in named : ClassOf(key) = 3})

\* account_keys is ordered by class and, inside a class, strictly ascending
\* by key bytes.
OrderedByClassThenKey(keys) ==
    \A i \in 1..(Len(keys) - 1) :
        \/ ClassOf(keys[i]) < ClassOf(keys[i + 1])
        \/ (ClassOf(keys[i]) = ClassOf(keys[i + 1]) /\ array_less(keys[i], keys[i + 1]))

\* The index compile gave to each key an instruction names is the key's
\* position in account_keys, counted from 0.
IndexIsPosition(message) ==
    \A k \in 1..Len(instructions) :
        /\ IsAt(message.account_keys, message.instructions[k].program_id_index,
                instructions[k].program_id)
        /\ \A j \in 1..Len(instructions[k].accounts) :
              IsAt(message.account_keys, message.instructions[k].account_indices[j],
                   instructions[k].accounts[j].pubkey)

\* C9: account ordering.  In every compiled message account_keys is ordered
\* by class, then strictly ascending by key, and each key's index is its
\* position in that sequence starting at 0.
AccountOrdering ==
    compiled_ok =>
        /\ OrderedByClassThenKey(compiled_message.account_keys)
        /\ IndexIsPosition(compiled_message)

\* The orders in which a caller can give the same accounts to an
\* instruction: every order of a short list, the list and its reverse of a
\* longer one.
AccountOrders(accounts) ==
    IF Len(accounts) <= MaxShuffled
    THEN {[i \in 1..Len(accounts) |-> accounts[p[i]]] : p \in Perms(1..Len(accounts))}
    ELSE {accounts, Reverse(accounts)}

\* The ways of adding the same multiset of instructions: the instructions
\* in any order, each with its accounts in any of AccountOrders.
Rearrangements(ixs) ==
    UNION { { r \in [1..Len(ixs) -> UNION {{[ixs[k] EXCEPT !.accounts = a] :
                                               a \in AccountOrders(ixs[k].accounts)} :
                                             k \in 1..Len(ixs)}] :
                \A i \in 1..Len(ixs) :
                    /\ r[i].program_id = ixs[p[i]].program_id
                    /\ r[i].data = ixs[p[i]].data
                    /\ r[i].accounts \in AccountOrders(ixs[p[i]].accounts) } :
            p \in Perms(1..Len(ixs)) }

\* C10: determinism.  Compiling the same payer and the same instructions,
\* added in any order, with the accounts of each instruction in any order
\* and with the key map enumerated in any order, gives the account_keys and
\* the header that the compilation in the state gave.
Determinism ==
    compile_ran =>
        \A r \in Rearrangements(instructions) :
            \A iter_order \in IterOrders(payer[1], r) :
                LET again == compile(payer, recent_blockhash, r, iter_order, overflow_checks)
                IN  /\ again.kind = result[1].kind
                    /\ again.kind = "Ok" =>
                          /\ again.value.account_keys = compiled_message.account_keys
                          /\ again.value.header = compiled_message.header

\* Two different instructions were compiled, one of them with two accounts,
\* and the keys of more than one class member had to be put in order.
DeterminismWitness ==
    /\ compiled_ok
    /\ Len(instructions) = 2
    /\ instructions[1] # instructions[2]
    /\ \E k \in 1..2 : Len(instructions[k].accounts) = 2
    /\ Cardinality(Rearrangements(instructions)) > 2
    /\ \E i \in 1..(Len(compiled_message.account_keys) - 1) :
          ClassOf(compiled_message.account_keys[i])
              = ClassOf(compiled_message.account_keys[i + 1])

(***************************************************************************)
(* Properties of the message that compile, build_unsigned or               *)
(* build_and_sign returned.                                                *)
(***************************************************************************)
\* One of the three consuming calls returned Ok.
built_ok == pc \in {"compiled", "built_unsigned", "signed"} /\ result[1].kind = "Ok"

\* The CompiledMessage it returned: the value itself for compile, the field
\* message of the CompiledTransaction for the build calls.
built_message == IF pc = "compiled" THEN result[1].value ELSE result[1].value.message

\* C11: account-key set.  account_keys of every compiled message holds no
\* key twice, and its keys are exactly the payer, every program_id and
\* every AccountMeta pubkey of the instructions.
AccountKeySet ==
    built_ok =>
        LET keys == built_message.account_keys
        IN  /\ Cardinality({keys[i] : i \in 1..Len(keys)}) = Len(keys)
            /\ {keys[i] : i \in 1..Len(keys)} = NamedKeys(payer[1], instructions)

\* A message was compiled from two instructions with the same program, the
\* payer named again as an account, three distinct keys in all.
AccountKeySetWitness ==
    /\ built_ok
    /\ Len(instructions) = 2
    /\ instructions[1].program_id = instructions[2].program_id
    /\ \E k \in 1..2 : \E j \in 1..Len(instructions[k].accounts) :
          instructions[k].accounts[j].pubkey = payer[1]
    /\ Cardinality(NamedKeys(payer[1], instructions)) = 3
    /\ Len(built_message.account_keys) = 3

\* C12: index resolution.  In every compiled message and for every
\* instruction k, program_id_index and each element of account_indices is a
\* position of account_keys; the key at program_id_index is the program_id
\* of raw instruction k; account_indices is as long as the raw account list
\* and the key at its j-th element is the pubkey of the j-th raw account.
IndexResolution ==
    built_ok =>
        LET keys == built_message.account_keys
            compiled == built_message.instructions
        IN  /\ Len(compiled) = Len(instructions)
            /\ \A k \in 1..Len(instructions) :
                  /\ compiled[k].program_id_index \in 0..(Len(keys) - 1)
                  /\ keys[compiled[k].program_id_index + 1] = instructions[k].program_id
                  /\ Len(compiled[k].account_indices) = Len(instructions[k].accounts)
                  /\ \A j \in 1..Len(instructions[k].accounts) :
                        /\ compiled[k].account_indices[j] \in 0..(Len(keys) - 1)
                        /\ keys[compiled[k].account_indices[j] + 1]
                               = instructions[k].accounts[j].pubkey

\* C13: instruction sequence and payload preserved.  The builder holds the
\* instructions of all add_instruction / add_instructions calls in call
\* order, and the compiled message has as many instructions, in that
\* order, each with the data bytes of the raw instruction.
InstructionsPreserved ==
    /\ instructions = added
    /\ built_ok =>
          /\ Len(built_message.instructions) = Len(added)
          /\ \A k \in 1..Len(added) : built_message.instructions[k].data = added[k].data

\* Two instructions with different payloads were added and compiled.
InstructionsPreservedWitness ==
    /\ built_ok
    /\ Len(added) = 2
    /\ added[1].data # added[2].data
    /\ added[2].data # <<>>

\* compile, build_unsigned or build_and_sign was called and returned.
called == pc \in {"compiled", "built_unsigned", "signed"}

InvalidTransactionErrors ==
    {"InvalidTransaction: Payer not set",
     "InvalidTransaction: Recent blockhash not set",
     "InvalidTransaction: No instructions provided"}

SignatureErrors == {SignatureError(n, m) : n \in 0..255, m \in 0..MaxSigners}

\* The number of signer keys among the keys payer and instructions name.
SignerKeys == Cardinality({key \in NamedKeys(payer[1], instructions) : IsSigner(key)})

UnsignedSlots ==
    (pc = "built_unsigned" /\ result[1].kind = "Ok") =>
        /\ Len(result[1].value.signatures)
               = result[1].value.message.header.num_required_signatures
        /\ \A i \in 1..Len(result[1].value.signatures) :
               /\ Len(result[1].value.signatures[i]) = SIGNATURE_LEN
               /\ \A j \in 1..SIGNATURE_LEN : result[1].value.signatures[i][j] = 0

\* build_unsigned returned a transaction with two slots for three keys.
UnsignedSlotsWitness ==
    /\ pc = "built_unsigned"
    /\ result[1].kind = "Ok"
    /\ Len(result[1].value.signatures) = 2
    /\ Len(result[1].value.message.account_keys) = 3

\* The message compile builds from the builder's fields; its header does not
\* depend on the iteration order of the map.
the_compiled ==
    compile(payer, recent_blockhash, instructions,
            FirstSeen(payer[1], instructions), overflow_checks)

\* C16: signer count check.  build_and_sign with a number of keypairs other
\* than header.num_required_signatures of the compiled message returns the
\* signer-count error naming both numbers, and no transaction.
SignerCountCheck ==
    (/\ pc = "signed"
     /\ payer # None
     /\ the_compiled.kind = "Ok"
     /\ Len(signers) # the_compiled.value.header.num_required_signatures)
        => result[1] = Err(SignatureError(
                               the_compiled.value.header.num_required_signatures,
                               Len(signers)))

\* build_and_sign was called with one keypair fewer than required, and with
\* one more.
SignerCountCheckWitness ==
    /\ pc = "signed"
    /\ payer # None
    /\ the_compiled.kind = "Ok"
    /\ Len(signers) + 1 = the_compiled.value.header.num_required_signatures
    /\ result[1].kind = "Err"

\* C17: signing.  A transaction returned by build_and_sign has one slot for
\* every keypair given, as many as header.num_required_signatures, and slot
\* i holds the signature of keypair i over the bytes message_bytes returns
\* for the transaction.
Signing ==
    (pc = "signed" /\ result[1].kind = "Ok") =>
        /\ Len(result[1].value.signatures) = Len(signers)
        /\ Len(signers) = result[1].value.message.header.num_required_signatures
        /\ \A i \in 1..Len(signers) :
               result[1].value.signatures[i]
                   = sign_message(signers[i], message_bytes(result[1].value).value)

\* build_and_sign returned a transaction signed by two different keypairs.
SigningWitness ==
    /\ pc = "signed"
    /\ result[1].kind = "Ok"
    /\ Len(signers) = 2
    /\ signers[1] # signers[2]

\* C18: signature-count invariant.  A CompiledTransaction that deserialize
\* returns for an input it accepts has as many signatures as its header's
\* num_required_signatures.
SignatureCountInvariant ==
    (cpc = "decoded" /\ the_decoded.kind = "Ok") =>
        Len(the_decoded.value.signatures)
            = the_decoded.value.message.header.num_required_signatures

\* The largest value a compact-u16 count or length field can hold.
U16_MAX == U16_MOD - 1

\* C19: wire layout.  serialize() is the compact-u16 signature count, the
\* signatures in order and then message_bytes(); message_bytes() is the three
\* header bytes, the compact-u16 key count, the keys in order, the blockhash,
\* the compact-u16 instruction count and the instructions in order.
WireLayout ==
    cpc \notin {"input", "serialized"} =>
        /\ the_wire.value
               = encode_compact_u16(Len(the_tx.signatures), <<>>)
                     \o extend_each(the_tx.signatures, <<>>)
                     \o the_msg_bytes.value
        /\ the_msg_bytes.value
               = <<the_tx.message.header.num_required_signatures,
                   the_tx.message.header.num_readonly_signed_accounts,
                   the_tx.message.header.num_readonly_unsigned_accounts>>
                     \o encode_compact_u16(Len(the_tx.message.account_keys), <<>>)
                     \o extend_each(the_tx.message.account_keys, <<>>)
                     \o the_tx.message.recent_blockhash
                     \o encode_compact_u16(Len(the_tx.message.instructions), <<>>)
                     \o instruction_serialize_range(the_tx.message.instructions, 1,
                                                    Len(the_tx.message.instructions))

\* A count or length field of t is more than a compact-u16 can hold.
Oversized(t) ==
    \/ Len(t.signatures) > U16_MAX
    \/ Len(t.message.account_keys) > U16_MAX
    \/ Len(t.message.instructions) > U16_MAX
    \/ \E k \in 1..Len(t.message.instructions) :
           \/ Len(t.message.instructions[k].account_indices) > U16_MAX
           \/ Len(t.message.instructions[k].data) > U16_MAX

\* C20: unrepresentable lengths.  Serializing a transaction, or its message,
\* with a count or length field above 65535 fails with an Unrepresentable
\* error.
UnrepresentableLengths ==
    Oversized(the_tx) =>
        /\ cpc # "input"
               => the_wire.kind = "Err" /\ the_wire.err = "Unrepresentable"
        /\ cpc \notin {"input", "serialized"}
               => the_msg_bytes.kind = "Err" /\ the_msg_bytes.err = "Unrepresentable"

\* The flags the compiled message gives to the key at the 1-based position i
\* of account_keys: the header cuts account_keys into writable signers,
\* readonly signers, writable non-signers and readonly non-signers.
MessageSigner(message, i) == i <= message.header.num_required_signatures

MessageWritable(message, i) ==
    IF MessageSigner(message, i)
    THEN i <= message.header.num_required_signatures
                  - message.header.num_readonly_signed_accounts
    ELSE i <= Len(message.account_keys) - message.header.num_readonly_unsigned_accounts

\* Some instruction names key as its program_id.
NamedAsProgram(key) == \E k \in 1..Len(instructions) : instructions[k].program_id = key

\* C26: flag merging.  In a compiled message a key other than the payer is
\* in a signer class iff some AccountMeta names it with is_signer set, and in
\* a writable class iff some AccountMeta names it with is_writable set.
FlagMerging ==
    compiled_ok =>
        \A i \in 1..Len(compiled_message.account_keys) :
            compiled_message.account_keys[i] # payer[1] =>
                /\ MessageSigner(compiled_message, i)
                       <=> NamedAsSigner(compiled_message.account_keys[i])
                /\ MessageWritable(compiled_message, i)
                       <=> NamedAsWritable(compiled_message.account_keys[i])

\* C27: program keys.  In a compiled message a key that is the program_id
\* of an instruction and not the payer has the OR of the flags of the
\* AccountMetas that name it: readonly non-signer when none does.
ProgramKeyFlags ==
    compiled_ok =>
        \A i \in 1..Len(compiled_message.account_keys) :
            (/\ NamedAsProgram(compiled_message.account_keys[i])
             /\ compiled_message.account_keys[i] # payer[1]) =>
                /\ MessageSigner(compiled_message, i)
                       = NamedAsSigner(compiled_message.account_keys[i])
                /\ MessageWritable(compiled_message, i)
                       = NamedAsWritable(compiled_message.account_keys[i])

\* C30: header structural bounds.  In a compiled message
\* 1 <= num_required_signatures, num_readonly_signed_accounts is below
\* num_required_signatures, and num_required_signatures plus
\* num_readonly_unsigned_accounts is at most the number of account keys.
HeaderBounds ==
    compiled_ok =>
        /\ 1 <= compiled_message.header.num_required_signatures
        /\ compiled_message.header.num_readonly_signed_accounts
               < compiled_message.header.num_required_signatures
        /\ compiled_message.header.num_required_signatures
               + compiled_message.header.num_readonly_unsigned_accounts
                   <= Len(compiled_message.account_keys)

(***************************************************************************)
(* Properties of the primitive codec, over the behaviours of               *)
(* SpecCompactU16 and SpecDecoders.                                        *)
(***************************************************************************)
\* The number of bytes of the compact-u16 encoding of v.
CompactU16Len(v) == IF v <= 127 THEN 1 ELSE IF v <= 16383 THEN 2 ELSE 3

\* C21: compact-u16 round trip.  For every u16 v, encode_compact_u16 writes
\* 1, 2 or 3 bytes according to v, every byte but the last has the high bit
\* set and the last has it clear, and decode_compact_u16 on these bytes
\* returns v and moves the cursor by the number of bytes written.
CompactU16RoundTrip ==
    (input_value # None /\ ppc # "value") =>
        /\ Len(cursor_data) = CompactU16Len(input_value[1])
        /\ \A i \in 1..Len(cursor_data) : cursor_data[i] \in 0..(U8_MOD - 1)
        /\ \A i \in 1..(Len(cursor_data) - 1) : cursor_data[i] >= 128
        /\ cursor_data[Len(cursor_data)] < 128
        /\ ppc = "decode_compact_u16" =>
              /\ returned[1] = OkAt(input_value[1], Len(cursor_data))
              /\ cursor_position = cursor_start + Len(cursor_data)

\* The largest u16 was encoded in three bytes and decoded.
CompactU16RoundTripWitness ==
    /\ input_value = Some(U16_MOD - 1)
    /\ ppc = "decode_compact_u16"
    /\ Len(cursor_data) = 3
    /\ returned[1].kind = "Ok"

\* The next three bytes at the cursor all have the continuation bit set.
ThreeContinuationBytes ==
    /\ cursor_start + 3 <= Len(cursor_data)
    /\ \A i \in 1..3 : cursor_data[cursor_start + i] >= 128

\* C22: malformed varint.  decode_compact_u16 at three bytes that all have
\* the continuation bit set returns the invalid-encoding error, and its
\* cursor stops after the third byte.
MalformedVarint ==
    (ppc = "decode_compact_u16" /\ ThreeContinuationBytes) =>
        /\ returned[1] = Err("DeserializationError: Invalid compact-u16 encoding")
        /\ cursor_position = cursor_start + 3

\* decode_compact_u16 was called at three continuation bytes that end the
\* buffer.
MalformedVarintWitness ==
    /\ ppc = "decode_compact_u16"
    /\ ThreeContinuationBytes
    /\ Len(cursor_data) = cursor_start + 3
    /\ returned[1].kind = "Err"

\* The bytes after the cursor end before a byte without continuation bit,
\* within the three bytes a compact-u16 can take.
VarintCutShort ==
    /\ Len(cursor_data) - cursor_start < 3
    /\ \A i \in (cursor_start + 1)..Len(cursor_data) : cursor_data[i] >= 128

\* Fewer bytes remain after the cursor than the field of the decoder called
\* requires.
FieldCutShort ==
    \/ ppc = "decode_u8" /\ Len(cursor_data) - cursor_start < 1
    \/ ppc = "decode_u64" /\ Len(cursor_data) - cursor_start < U64_LEN
    \/ ppc = "decode_pubkey" /\ Len(cursor_data) - cursor_start < PUBKEY_LEN
    \/ ppc = "decode_compact_u16" /\ VarintCutShort
    \/ /\ ppc = "decode_length_prefixed"
       /\ \/ VarintCutShort
          \/ /\ decode_compact_u16(cursor_data, cursor_start).kind = "Ok"
             /\ decode_compact_u16(cursor_data, cursor_start).position
                    + decode_compact_u16(cursor_data, cursor_start).value
                        > Len(cursor_data)

\* C23: truncated primitive decode.  A primitive decoder called with fewer
\* bytes after the cursor than its field requires returns BufferTooSmall,
\* and its cursor stays inside the buffer.
TruncatedPrimitiveDecode ==
    FieldCutShort =>
        /\ returned[1] = Err("BufferTooSmall")
        /\ cursor_position <= Len(cursor_data)

\* The buffer declares more account indices, or more data bytes, than it
\* holds after the declaration.
DeclaredLengthExceedsBuffer ==
    /\ decode_u8(cursor_data, 0).kind = "Ok"
    /\ decode_compact_u16(cursor_data, 1).kind = "Ok"
    /\ LET accounts_len == decode_compact_u16(cursor_data, 1)
           accounts_end == accounts_len.position + accounts_len.value
       IN  \/ accounts_end > Len(cursor_data)
           \/ /\ decode_compact_u16(cursor_data, accounts_end).kind = "Ok"
              /\ decode_compact_u16(cursor_data, accounts_end).position
                     + decode_compact_u16(cursor_data, accounts_end).value
                         > Len(cursor_data)

\* C24: instruction decoder bounds.  InstructionDecoder::decode on a buffer
\* that declares more account indices or data bytes than remain returns an
\* error of the truncated-input kind.
InstructionDecoderBounds ==
    (ppc = "InstructionDecoder::decode" /\ DeclaredLengthExceedsBuffer) =>
        /\ returned[1].kind = "Err"
        /\ returned[1].err \in TruncatedInputErrors

\* C28: canonical re-encoding.  When deserialize accepts a buffer and
\* consumes all of it, serialize() of the result is the buffer; and the
\* bytes decode_compact_u16 accepts are the bytes encode_compact_u16 writes
\* for the value it returns.
CanonicalReencoding ==
    /\ (ppc = "reserialized" /\ cursor_position = Len(cursor_data))
           => reencoded[1] = Ok(cursor_data)
    /\ (ppc = "decode_compact_u16" /\ returned[1].kind = "Ok")
           => SubSeq(cursor_data, cursor_start + 1, cursor_position)
                  = encode_compact_u16(returned[1].value, <<>>)

(***************************************************************************)
(* Properties of the optimizer, over the behaviours of SpecOptimizer.      *)
(***************************************************************************)
\* C25: the optimizer is the identity.  For every strategy optimize returns
\* Ok with the transaction it was given, and a report whose original_size
\* and optimized_size are size() of the transaction and whose bytes_saved
\* is 0.
OptimizerIdentity ==
    optimized # None =>
        /\ optimized[1].kind = "Ok"
        /\ optimized[1].transaction = tx[1]
        /\ optimized[1].report.original_size = size(the_tx)
        /\ optimized[1].report.optimized_size = optimized[1].report.original_size
        /\ optimized[1].report.bytes_saved = 0

\* The Cost strategy was applied to a transaction with two instructions.
OptimizerIdentityWitness ==
    /\ optimized # None
    /\ optimized[1].strategy = "Cost"
    /\ Len(the_tx.message.instructions) = 2
    /\ optimized[1].kind = "Ok"

(***************************************************************************)
(* Properties of RawInstruction, over the behaviours of SpecRaw.           *)
(***************************************************************************)
\* C29: raw instruction size exactness.  byte_size() of a RawInstruction is
\* the number of bytes its serialize_bytes writes, and the length of what
\* InstructionEncoder::serialize returns.
RawSizeExact ==
    /\ rpc \in {"sized", "encoded"} => raw_size[1] = Len(Flat(raw_bytes[1]))
    /\ rpc = "encoded" => raw_size[1] = Len(Flat(encoder_bytes[1].value))

====
